---- MODULE Spec2Model ----
(***************************************************************************)
(* EPS Account Intelligence Agent: the REST tool catalog and its           *)
(* conversation loop (databricks/oai_reponses_agent/eps_agent_cli.py), the *)
(* query normalizer (tool_lab.py) and the ReAct CLI with its MCP tools     *)
(* (agents/EPS_ReAct_Agent_CLI.py, tools/EPS_MCP_Tools.py).                *)
(*                                                                         *)
(* A Python string is a sequence of pieces.  A piece is a TLA+ string: one *)
(* character where the code looks inside the text (queries, timestamps,    *)
(* document content), a whole literal where it only copies it.  String     *)
(* concatenation is \o.  A Python dict is a function from its keys, so     *)
(* that a missing key is a key outside DOMAIN.                             *)
(***************************************************************************)
EXTENDS Integers, Sequences, FiniteSets, TLC

VARIABLES
    variant,      \* which program runs: "cli" (EPSAgentCLI) or "react" (run_chat_session)
    pc,           \* position of the session's control flow
    messages,     \* the conversation history (self.messages / messages)
    pending,      \* tool calls of the current response not yet executed
    iteration,    \* loop variable of the reasoning loop (completed rounds)
    llm_calls,    \* reasoning-service calls issued for the current user message
    shown,        \* what the session last showed to the user for the current message
    requests,     \* search requests sent to the backend so far, in order
    inputs,       \* user messages read so far
    free_calls,   \* tool calls the unconstrained stub has requested so far
    stub,         \* behaviour of the reasoning service in this session
    next_id,      \* next tool-call id the reasoning service hands out
    t_pc,         \* unit harness: position
    t_in,         \* unit harness: the input drawn at Init
    t_out         \* unit harness: the output of the operation applied

chatVars == <<variant, pc, messages, pending, iteration, llm_calls, shown,
              requests, inputs, free_calls, stub, next_id>>
unitVars == <<t_pc, t_in, t_out>>
vars == <<variant, pc, messages, pending, iteration, llm_calls, shown,
          requests, inputs, free_calls, stub, next_id, t_pc, t_in, t_out>>

(***************************************************************************)
(* Bounds of the model.                                                    *)
(***************************************************************************)
MaxInputs == 2
MaxFreeCalls == 2

(***************************************************************************)
(* Python helpers.                                                         *)
(***************************************************************************)
None == <<>>

Get(d, k, default) == IF k \in DOMAIN d THEN d[k] ELSE default

Min(a, b) == IF a < b THEN a ELSE b

Prefix(s, n) == SubSeq(s, 1, Min(n, Len(s)))

EmptyDict == [k \in {} |-> None]

\* A call either returns a value or raises; v is the value or the exception text.
Returned(v) == [raised |-> FALSE, value |-> v]
Raised(v) == [raised |-> TRUE, value |-> v]

(***************************************************************************)
(* Search Gateway: glean_search.                                           *)
(***************************************************************************)
\* What the backend does with one POST: a 2xx response whose body parses to
\* `data`, a non-2xx response (raise_for_status), or any other exception
\* (transport failure, timeout, unparsable body).
BackendOk(results) == [kind |-> "ok", data |-> [results |-> results]]
BackendStatus(code) == [kind |-> "status", status_code |-> code]
BackendException(e) == [kind |-> "exception", text |-> e]

\* Variant of request_options: the datasource filter is always sent.
request_options_always_filtered(datasources, facet_filters) ==
    [facetBucketSize |-> 100, returnLlmContentOverSnippets |-> TRUE,
     datasourcesFilter |-> datasources]
        @@ (IF facet_filters # None
              THEN [facetFilters |-> facet_filters] ELSE EmptyDict)

request_options(datasources, facet_filters) ==
    [facetBucketSize |-> 100, returnLlmContentOverSnippets |-> TRUE]
        @@ (IF datasources # None
              THEN [datasourcesFilter |-> datasources] ELSE EmptyDict)
        @@ (IF facet_filters # None
              THEN [facetFilters |-> facet_filters] ELSE EmptyDict)

payload(query, datasources, num_results, facet_filters) ==
    [query |-> query,
     pageSize |-> num_results,
     maxSnippetSize |-> 4000,
     requestOptions |-> request_options(datasources, facet_filters)]

\* The content of a result is a Python str, a list of snippets, or a snippet
\* dict: the value is tagged with its type, since the formatter tests it.
PyStr(chars) == [t |-> "str", v |-> chars]
PyList(items) == [t |-> "list", v |-> items]
PyDict(d) == [t |-> "dict", v |-> d]

\* Python truthiness of such a value: non-empty.
Truthy(x) == IF x.t = "dict" THEN DOMAIN x.v # {} ELSE x.v # <<>>

\* r.get("llmContent") or r.get("snippets", [])
result_content(r) ==
    IF "llmContent" \in DOMAIN r /\ Truthy(r.llmContent) THEN r.llmContent
    ELSE Get(r, "snippets", PyList(<<>>))

formatted_record(r) ==
    LET doc == Get(r, "document", EmptyDict) IN
    [title |-> Get(doc, "title", <<"Untitled">>),
     url |-> Get(doc, "url", <<>>),
     snippets |-> result_content(r),
     datasource |-> Get(doc, "datasource", <<>>),
     author |-> Get(Get(doc, "author", EmptyDict), "name", <<"Unknown">>),
     updatedAt |-> Get(doc, "updateTime", <<>>)]

\* Variant of search_results: the records come back last result first.
search_results_reversed(outcome) ==
    CASE outcome.kind = "ok" ->
           LET results == Get(outcome.data, "results", <<>>) IN
           [i \in 1..Len(results) |-> formatted_record(results[Len(results) + 1 - i])]
      [] outcome.kind = "status" ->
           << [error |-> <<"Glean API error: ", ToString(outcome.status_code)>>] >>
      [] OTHER ->
           << [error |-> <<"Glean error: ">> \o outcome.text] >>

\* The records glean_search returns for one backend outcome.
search_results(outcome) ==
    CASE outcome.kind = "ok" ->
           LET results == Get(outcome.data, "results", <<>>) IN
           [i \in 1..Len(results) |-> formatted_record(results[i])]
      [] outcome.kind = "status" ->
           << [error |-> <<"Glean API error: ", ToString(outcome.status_code)>>] >>
      [] OTHER ->
           << [error |-> <<"Glean error: ">> \o outcome.text] >>

\* Variant of glean_search: a failed request is posted a second time.
glean_search_retrying(query, datasources, num_results, facet_filters, outcome) ==
    [requests |->
        IF outcome.kind = "ok"
          THEN << payload(query, datasources, num_results, facet_filters) >>
          ELSE << payload(query, datasources, num_results, facet_filters),
                  payload(query, datasources, num_results, facet_filters) >>,
     results |-> search_results(outcome)]

\* One call of glean_search: the one request it posts and the list it returns.
glean_search(query, datasources, num_results, facet_filters, outcome) ==
    [requests |-> << payload(query, datasources, num_results, facet_filters) >>,
     results |-> search_results(outcome)]

\* Variant of glean_search_call: only the HTTPStatusError handler.
glean_search_call_status_only(token, query, datasources, num_results, facet_filters, outcome) ==
    LET g == glean_search(query, datasources, num_results, facet_filters, outcome) IN
    IF ~token
      THEN [raised |-> TRUE, value |-> <<"Glean API token not set">>, requests |-> <<>>]
    ELSE IF outcome.kind = "exception"
      THEN [raised |-> TRUE, value |-> outcome.text, requests |-> g.requests]
    ELSE [raised |-> FALSE, value |-> g.results, requests |-> g.requests]

\* A call of glean_search from outside: `token` is whether _glean_api_token
\* is set.  Without it the call raises RuntimeError before anything is sent;
\* with it the try block and its two handlers return a list in every case.
glean_search_call(token, query, datasources, num_results, facet_filters, outcome) ==
    LET g == glean_search(query, datasources, num_results, facet_filters, outcome) IN
    IF ~token
      THEN [raised |-> TRUE, value |-> <<"Glean API token not set">>, requests |-> <<>>]
    ELSE [raised |-> FALSE, value |-> g.results, requests |-> g.requests]

(***************************************************************************)
(* Result Formatter: format_results.                                       *)
(***************************************************************************)
\* sorted() on the datasource names the backends use.
DatasourceOrder == << <<>>, <<"Unknown">>, <<"gdrive">>, <<"gmail">>, <<"gong">>,
                      <<"looker">>, <<"salescloud">>, <<"slack">> >>

Rank(d) == CHOOSE i \in 1..Len(DatasourceOrder) : DatasourceOrder[i] = d

RECURSIVE sorted(_)
sorted(S) ==
    IF S = {} THEN <<>>
    ELSE LET m == CHOOSE x \in S : \A y \in S : Rank(x) <= Rank(y)
         IN <<m>> \o sorted(S \ {m})

RECURSIVE join(_, _)
join(sep, strs) ==
    IF strs = <<>> THEN <<>>
    ELSE IF Len(strs) = 1 THEN strs[1]
    ELSE strs[1] \o sep \o join(sep, Tail(strs))

\* first.get('text', first.get('snippet', '')) on a snippet dict
snippet_of_dict(d) == Get(d, "text", Get(d, "snippet", <<>>))

\* the text taken from a record's content, before clipping
raw_snippet_text(r) ==
    LET content == Get(r, "snippets", PyList(<<>>)) IN
    IF ~Truthy(content) THEN <<>>
    ELSE IF content.t = "str" THEN content.v
    ELSE IF content.t = "list" THEN
        LET first == content.v[1] IN
        IF ~Truthy(first) THEN <<>>
        ELSE IF first.t = "dict" THEN snippet_of_dict(first.v)
        ELSE IF first.t = "str" THEN first.v
        ELSE <<>>
    ELSE <<>>

\* snippet_text[:500] + "..." if len(snippet_text) > 500 else snippet_text
\* Variant of clip: the cut comes after 503 characters.
clip_late(text) ==
    IF Len(text) > 503 THEN Prefix(text, 503) \o <<".", ".", ".">> ELSE text

clip(text) ==
    IF Len(text) > 500 THEN Prefix(text, 500) \o <<".", ".", ".">> ELSE text

snippet_text(r) == clip(raw_snippet_text(r))

entry(i, r) ==
    LET title == Get(r, "title", <<"Untitled">>)
        url == Get(r, "url", <<>>)
        datasource == Get(r, "datasource", <<"Unknown">>)
        author == Get(r, "author", <<>>)
        updated == Prefix(Get(r, "updatedAt", <<>>), 10)
        text == snippet_text(r)
    IN  <<"**[", ToString(i), "] ">> \o title \o <<"**">>
          \o <<"\n- **Datasource: ">> \o datasource \o <<"**">>
          \o (IF updated # <<>> THEN <<" | Updated: ">> \o updated ELSE <<>>)
          \o (IF author # <<>> THEN <<" | Author: ">> \o author ELSE <<>>)
          \o (IF text # <<>> THEN <<"\n- Content: ">> \o text ELSE <<>>)
          \o <<"\n- URL: ">> \o url

\* Variant of rendered: every record is rendered.
rendered_all(results) == results

\* results[:5]
rendered(results) == Prefix(results, 5)

datasources_found(results) ==
    { Get(rendered(results)[i], "datasource", <<"Unknown">>) :
        i \in 1..Len(rendered(results)) }

header(results, source_name) ==
    <<"Found ", ToString(Len(results)), " result(s) from ">> \o source_name \o <<"\n">>
      \o <<"[Datasources in results: ">>
      \o join(<<", ">>, sorted(datasources_found(results))) \o <<"]\n\n">>

\* Variant of format_results: without the error branch.
format_results_no_error_branch(results, source_name) ==
    IF results = <<>> THEN <<"No results found in ">> \o source_name \o <<".">>
    ELSE header(results, source_name)
           \o join(<<"\n\n---\n\n">>,
                   [i \in 1..Len(rendered(results)) |-> entry(i, rendered(results)[i])])

\* Variant of format_results: an empty list gets the header of a full one.
format_results_counting_empty(results, source_name) ==
    IF results = <<>> THEN header(results, source_name)
    ELSE IF Get(results[1], "error", None) # None THEN results[1].error
    ELSE header(results, source_name)
           \o join(<<"\n\n---\n\n">>,
                   [i \in 1..Len(rendered(results)) |-> entry(i, rendered(results)[i])])

\* Variant of format_results: the records after an error record are
\* rendered below the error message.
format_results_error_then_rest(results, source_name) ==
    IF results = <<>> THEN <<"No results found in ">> \o source_name \o <<".">>
    ELSE IF Get(results[1], "error", None) # None
      THEN results[1].error
             \o join(<<"\n\n---\n\n">>,
                     [i \in 1..Len(rendered(Tail(results))) |->
                         entry(i, rendered(Tail(results))[i])])
    ELSE header(results, source_name)
           \o join(<<"\n\n---\n\n">>,
                   [i \in 1..Len(rendered(results)) |-> entry(i, rendered(results)[i])])

format_results(results, source_name) ==
    IF results = <<>> THEN <<"No results found in ">> \o source_name \o <<".">>
    ELSE IF Get(results[1], "error", None) # None THEN results[1].error
    ELSE header(results, source_name)
           \o join(<<"\n\n---\n\n">>,
                   [i \in 1..Len(rendered(results)) |-> entry(i, rendered(results)[i])])

(***************************************************************************)
(* Query Normalizer: quote_account_name (tool_lab.py).  A query is a       *)
(* sequence of characters.                                                 *)
(***************************************************************************)
Quote == "\""

UpperCase == <<"A", "B", "C", "D", "E", "F", "G", "H", "I", "J", "K", "L", "M", "N", "O", "P", "Q", "R", "S", "T", "U", "V", "W", "X", "Y", "Z">>
LowerCase == <<"a", "b", "c", "d", "e", "f", "g", "h", "i", "j", "k", "l", "m", "n", "o", "p", "q", "r", "s", "t", "u", "v", "w", "x", "y", "z">>

\* str.lower() on one character
lower_char(c) ==
    IF \E i \in 1..Len(UpperCase) : UpperCase[i] = c
      THEN LowerCase[CHOOSE i \in 1..Len(UpperCase) : UpperCase[i] = c]
      ELSE c

lower(word) == [i \in 1..Len(word) |-> lower_char(word[i])]

is_space(c) == c \in {" ", "\t", "\n"}

\* str.split(): the maximal runs of non-whitespace characters, in order
RECURSIVE split_from(_, _, _)
split_from(s, i, word) ==
    IF i > Len(s) THEN (IF word = <<>> THEN <<>> ELSE <<word>>)
    ELSE IF is_space(s[i])
      THEN (IF word = <<>> THEN <<>> ELSE <<word>>) \o split_from(s, i + 1, <<>>)
    ELSE split_from(s, i + 1, Append(word, s[i]))

split(s) == split_from(s, 1, <<>>)

\* str.strip(): without leading and trailing whitespace
RECURSIVE lstrip(_)
lstrip(s) == IF s # <<>> /\ is_space(s[1]) THEN lstrip(Tail(s)) ELSE s

RECURSIVE rstrip(_)
rstrip(s) ==
    IF s # <<>> /\ is_space(s[Len(s)]) THEN rstrip(SubSeq(s, 1, Len(s) - 1)) ELSE s

strip(s) == rstrip(lstrip(s))

action_words ==
    { <<"r", "e", "n", "e", "w", "a", "l">>,
      <<"r", "e", "n", "e", "w">>,
      <<"c", "o", "n", "t", "r", "a", "c", "t">>,
      <<"o", "p", "p", "o", "r", "t", "u", "n", "i", "t", "y">>,
      <<"d", "e", "a", "l">>,
      <<"c", "o", "n", "t", "a", "c", "t">>,
      <<"c", "o", "n", "t", "a", "c", "t", "s">>,
      <<"s", "t", "a", "k", "e", "h", "o", "l", "d", "e", "r">>,
      <<"d", "e", "c", "i", "s", "i", "o", "n">>,
      <<"a", "c", "c", "o", "u", "n", "t">>,
      <<"c", "o", "m", "p", "a", "n", "y">>,
      <<"i", "n", "f", "o">>,
      <<"o", "v", "e", "r", "v", "i", "e", "w">>,
      <<"c", "a", "l", "l">>,
      <<"c", "a", "l", "l", "s">>,
      <<"m", "e", "e", "t", "i", "n", "g">>,
      <<"e", "m", "a", "i", "l">>,
      <<"s", "l", "a", "c", "k">>,
      <<"q", "b", "r">>,
      <<"e", "b", "r">>,
      <<"p", "l", "a", "n">>,
      <<"s", "t", "r", "a", "t", "e", "g", "y">>,
      <<"d", "o", "c">>,
      <<"m", "e", "t", "r", "i", "c">>,
      <<"m", "e", "t", "r", "i", "c", "s">>,
      <<"d", "a", "s", "h", "b", "o", "a", "r", "d">>,
      <<"s", "p", "e", "n", "d">>,
      <<"f", "u", "n", "d", "i", "n", "g">>,
      <<"k", "e", "y">>,
      <<"r", "e", "c", "e", "n", "t">>,
      <<"l", "a", "s", "t">>,
      <<"l", "a", "t", "e", "s", "t">>,
      <<"u", "p", "c", "o", "m", "i", "n", "g">> }

\* Variant of account_count: the word is compared as written.
RECURSIVE account_count_case_sensitive(_)
account_count_case_sensitive(words) ==
    IF words = <<>> \/ words[1] \in action_words THEN 0
    ELSE 1 + account_count_case_sensitive(Tail(words))

\* number of leading words that are no action word (the loop of lines 197-202)
RECURSIVE account_count(_)
account_count(words) ==
    IF words = <<>> \/ lower(words[1]) \in action_words THEN 0
    ELSE 1 + account_count(Tail(words))

\* Variant of quote_account_name: without the test for a leading quote.
quote_account_name_requoting(query) ==
    LET words == split(query)
        n == account_count(words)
        account_words == SubSeq(words, 1, n)
        rest_words == SubSeq(words, n + 1, Len(words))
    IN IF account_words # <<>>
         THEN strip(<<Quote>> \o join(<<" ">>, account_words) \o <<Quote, " ">>
                      \o join(<<" ">>, rest_words))
         ELSE query

\* Variant of quote_account_name: a quoted query is returned stripped.
quote_account_name_stripping(query) ==
    IF query # <<>> /\ query[1] = Quote THEN strip(query)
    ELSE LET words == split(query)
             n == account_count(words)
             account_words == SubSeq(words, 1, n)
             rest_words == SubSeq(words, n + 1, Len(words))
         IN IF account_words # <<>>
              THEN strip(<<Quote>> \o join(<<" ">>, account_words) \o <<Quote, " ">>
                           \o join(<<" ">>, rest_words))
              ELSE query

\* Variant of quote_account_name: nothing is quoted unless an action word
\* follows the account words.
quote_account_name_keyword_only(query) ==
    IF query # <<>> /\ query[1] = Quote THEN query
    ELSE LET words == split(query)
             n == account_count(words)
             account_words == SubSeq(words, 1, n)
             rest_words == SubSeq(words, n + 1, Len(words))
         IN IF account_words # <<>> /\ rest_words # <<>>
              THEN strip(<<Quote>> \o join(<<" ">>, account_words) \o <<Quote, " ">>
                           \o join(<<" ">>, rest_words))
              ELSE query

quote_account_name(query) ==
    IF query # <<>> /\ query[1] = Quote THEN query
    ELSE LET words == split(query)
             n == account_count(words)
             account_words == SubSeq(words, 1, n)
             rest_words == SubSeq(words, n + 1, Len(words))
         IN IF account_words # <<>>
              THEN strip(<<Quote>> \o join(<<" ">>, account_words) \o <<Quote, " ">>
                           \o join(<<" ">>, rest_words))
              ELSE query

(***************************************************************************)
(* Tool Catalog: the seven tools of eps_agent_cli.py and TOOLS.            *)
(***************************************************************************)
type_filter(value) ==
    [fieldName |-> "type",
     values |-> << [value |-> value, relationType |-> "EQUALS"] >>]

\* What a tool hands back: the text it returns and the requests it posted.
tool_output(g, source_name) ==
    [result |-> format_results(g.results, source_name), requests |-> g.requests]

search_salesforce_opportunities(query, outcome) ==
    tool_output(glean_search(query, << <<"salescloud">> >>, 5,
                             << type_filter("opportunity") >>, outcome),
                <<"Salesforce Opportunities">>)

search_salesforce_accounts(query, outcome) ==
    tool_output(glean_search(query, << <<"salescloud">> >>, 5,
                             << type_filter("account") >>, outcome),
                <<"Salesforce Accounts">>)

\* Variant of search_salesforce_contacts: the accounts filter, copied.
search_salesforce_contacts_copied(query, outcome) ==
    tool_output(glean_search(query, << <<"salescloud">> >>, 5,
                             << type_filter("account") >>, outcome),
                <<"Salesforce Contacts">>)

search_salesforce_contacts(query, outcome) ==
    tool_output(glean_search(query, << <<"salescloud">> >>, 5,
                             << type_filter("contact") >>, outcome),
                <<"Salesforce Contacts">>)

search_metrics_and_dashboards(query, outcome) ==
    tool_output(glean_search(query, << <<"salescloud">>, <<"looker">> >>, 6,
                             None, outcome),
                <<"Metrics (Salesforce + Looker)">>)

search_strategy_docs(query, outcome) ==
    tool_output(glean_search(query, << <<"gdrive">> >>, 5, None, outcome),
                <<"Google Drive">>)

search_communications(query, outcome) ==
    tool_output(glean_search(query, << <<"gong">>, <<"slack">>, <<"gmail">> >>, 9,
                             None, outcome),
                <<"Communications (Gong/Slack/Gmail)">>)

search_general_fallback(query, outcome) ==
    tool_output(glean_search(query, None, 10, None, outcome), <<"All Sources">>)

\* the keys of TOOLS
ToolNames ==
    {"search_salesforce_opportunities", "search_salesforce_accounts",
     "search_salesforce_contacts", "search_metrics_and_dashboards",
     "search_strategy_docs", "search_communications", "search_general_fallback"}

\* TOOLS[name](query)
TOOLS(name, query, outcome) ==
    CASE name = "search_salesforce_opportunities" ->
           search_salesforce_opportunities(query, outcome)
      [] name = "search_salesforce_accounts" ->
           search_salesforce_accounts(query, outcome)
      [] name = "search_salesforce_contacts" ->
           search_salesforce_contacts(query, outcome)
      [] name = "search_metrics_and_dashboards" ->
           search_metrics_and_dashboards(query, outcome)
      [] name = "search_strategy_docs" ->
           search_strategy_docs(query, outcome)
      [] name = "search_communications" ->
           search_communications(query, outcome)
      [] name = "search_general_fallback" ->
           search_general_fallback(query, outcome)

\* Variant of execute_tool: TOOLS[name] without the membership test.
execute_tool_unchecked(name, args, outcome) ==
    IF name \notin ToolNames
      THEN [raised |-> TRUE, value |-> <<"KeyError">>, requests |-> <<>>]
    ELSE IF DOMAIN args # {"query"}
      THEN [raised |-> TRUE, value |-> <<"TypeError">>, requests |-> <<>>]
    ELSE LET out == TOOLS(name, args.query, outcome)
         IN [raised |-> FALSE, value |-> out.result, requests |-> out.requests]

\* EPSAgentCLI.execute_tool(name, args): the text returned or the exception
\* raised, and the requests posted on the way.  TOOLS[name](**args) binds the
\* mapping to the one parameter `query`; any other key set is a TypeError.
execute_tool(name, args, outcome) ==
    IF name \notin ToolNames
      THEN [raised |-> FALSE, value |-> <<"Unknown tool", ": ", name>>, requests |-> <<>>]
    ELSE IF DOMAIN args # {"query"}
      THEN [raised |-> TRUE, value |-> <<"TypeError">>, requests |-> <<>>]
    ELSE LET out == TOOLS(name, args.query, outcome)
         IN [raised |-> FALSE, value |-> out.result, requests |-> out.requests]

(***************************************************************************)
(* MCP tool variant: EPSVirtualTools.                                      *)
(***************************************************************************)
\* What session.call_tool does: it returns content blocks or raises.
McpContent(blocks) == [kind |-> "content", content |-> blocks]
McpException(e) == [kind |-> "exception", text |-> e]

TextBlock(text) == [text |-> text]

full_query(query, app_filter, num_results) ==
    IF app_filter # <<>>
      THEN query \o <<" ">> \o app_filter \o <<" num_results:", ToString(num_results)>>
      ELSE query \o <<" num_results:", ToString(num_results)>>

\* EPSVirtualTools._mcp_search: the request sent and the list returned
mcp_search(query, app_filter, num_results, outcome) ==
    [requests |-> << [tool |-> "search",
                      arguments |-> [query |-> full_query(query, app_filter, num_results)]] >>,
     results |-> IF outcome.kind = "content" THEN outcome.content ELSE <<>>]

\* Variant of mcp_read: a failed read looks like a read without content.
mcp_read_silent(url, outcome) ==
    [requests |-> << [tool |-> "read_document", arguments |-> [url |-> url]] >>,
     result |-> IF outcome.kind = "content" /\ outcome.content # <<>>
                  THEN outcome.content[1].text
                  ELSE <<"No content found.">>]

\* EPSVirtualTools._mcp_read
mcp_read(url, outcome) ==
    [requests |-> << [tool |-> "read_document", arguments |-> [url |-> url]] >>,
     result |-> IF outcome.kind = "content"
                  THEN (IF outcome.content # <<>> THEN outcome.content[1].text
                        ELSE <<"No content found.">>)
                  ELSE <<"Error reading document: ">> \o outcome.text]

\* results[0].text if results else default
first_text(results, default) == IF results # <<>> THEN results[1].text ELSE default

\* Each MCP tool takes the outcomes of its calls in the order it issues them.
mcp_search_salesforce(query, outcomes) ==
    LET s == mcp_search(query, <<"app:salesforce">>, 5, outcomes[1]) IN
    [result |-> <<"--- SALESFORCE RESULTS FOR '">> \o query \o <<"' ---\n">>
                  \o first_text(s.results, <<"No Salesforce records found.">>),
     requests |-> s.requests]

mcp_search_metrics_and_dashboards(query, outcomes) ==
    LET sf == mcp_search(query, <<"app:salesforce">>, 3, outcomes[1])
        looker == mcp_search(query, <<"app:looker">>, 3, outcomes[2])
    IN [result |-> <<"--- METRICS SOURCES FOR '">> \o query \o <<"' ---\n">>
                     \o <<"[Salesforce Data]:\n">> \o first_text(sf.results, <<"None">>)
                     \o <<"\n\n">>
                     \o <<"[Looker Dashboards]:\n">> \o first_text(looker.results, <<"None">>),
        requests |-> sf.requests \o looker.requests]

mcp_search_strategy_docs(query, outcomes) ==
    LET s == mcp_search(query, <<"app:googledrive">>, 5, outcomes[1]) IN
    [result |-> <<"--- STRATEGY DOCS FOR '">> \o query \o <<"' ---\n">>
                  \o first_text(s.results, <<"No strategy docs found.">>),
     requests |-> s.requests]

mcp_search_communications(query, outcomes) ==
    LET gong == mcp_search(query, <<"app:gong">>, 3, outcomes[1])
        slack == mcp_search(query, <<"app:slack">>, 3, outcomes[2])
        gmail == mcp_search(query, <<"app:gmail">>, 3, outcomes[3])
    IN [result |-> <<"--- COMMUNICATION SOURCES FOR '">> \o query \o <<"' ---\n">>
                     \o <<"[Gong Calls]:\n">> \o first_text(gong.results, <<"None">>)
                     \o <<"\n\n">>
                     \o <<"[Slack Threads]:\n">> \o first_text(slack.results, <<"None">>)
                     \o <<"\n\n">>
                     \o <<"[Gmail Threads]:\n">> \o first_text(gmail.results, <<"None">>),
        requests |-> gong.requests \o slack.requests \o gmail.requests]

mcp_read_full_document(url, outcomes) ==
    LET r == mcp_read(url, outcomes[1]) IN
    [result |-> <<"--- DOCUMENT CONTENT FOR '">> \o url \o <<"' ---\n">> \o r.result,
     requests |-> r.requests]

mcp_search_general_fallback(query, outcomes) ==
    LET s == mcp_search(query, <<>>, 5, outcomes[1]) IN
    [result |-> <<"--- GENERAL SEARCH RESULTS FOR '">> \o query \o <<"' ---\n">>
                  \o first_text(s.results, <<"No results found in any source.">>),
     requests |-> s.requests]

\* the tools of run_chat_session that take args["query"]
ReactQueryTools ==
    {"search_salesforce", "search_metrics_and_dashboards", "search_strategy_docs",
     "search_communications", "search_general_fallback"}

\* how many MCP calls a tool of run_chat_session issues
mcp_calls(fn_name) ==
    CASE fn_name = "search_metrics_and_dashboards" -> 2
      [] fn_name = "search_communications" -> 3
      [] OTHER -> 1

react_query_tool(fn_name, query, outcomes) ==
    CASE fn_name = "search_salesforce" -> mcp_search_salesforce(query, outcomes)
      [] fn_name = "search_metrics_and_dashboards" ->
           mcp_search_metrics_and_dashboards(query, outcomes)
      [] fn_name = "search_strategy_docs" -> mcp_search_strategy_docs(query, outcomes)
      [] fn_name = "search_communications" -> mcp_search_communications(query, outcomes)
      [] fn_name = "search_general_fallback" ->
           mcp_search_general_fallback(query, outcomes)

\* the if/elif chain of run_chat_session: args["query"] and args["url"] raise
\* KeyError when the key is missing
react_dispatch(fn_name, args, outcomes) ==
    IF fn_name \in ReactQueryTools THEN
        IF "query" \notin DOMAIN args
          THEN [raised |-> TRUE, value |-> <<"KeyError: 'query'">>, requests |-> <<>>]
          ELSE LET out == react_query_tool(fn_name, args.query, outcomes)
               IN [raised |-> FALSE, value |-> out.result, requests |-> out.requests]
    ELSE IF fn_name = "read_full_document" THEN
        IF "url" \notin DOMAIN args
          THEN [raised |-> TRUE, value |-> <<"KeyError: 'url'">>, requests |-> <<>>]
          ELSE LET out == mcp_read_full_document(args.url, outcomes)
               IN [raised |-> FALSE, value |-> out.result, requests |-> out.requests]
    ELSE [raised |-> FALSE, value |-> <<"Error: ", "Unknown tool", ".">>, requests |-> <<>>]

(***************************************************************************)
(* Conversation history and the reasoning service's envelope.              *)
(***************************************************************************)
SYSTEM_PROMPT == <<"SYSTEM_PROMPT">>

NoId == 0

Msg(role, content, tool_calls, tool_call_id) ==
    [role |-> role, content |-> content, tool_calls |-> tool_calls,
     tool_call_id |-> tool_call_id]

system_message == Msg("system", SYSTEM_PROMPT, <<>>, NoId)

user_message(text) == Msg("user", text, <<>>, NoId)

\* Variant of assistant_message: the content is dropped.
assistant_message_blank(content) == Msg("assistant", None, <<>>, NoId)

\* {"role": "assistant", "content": assistant_message.content}
assistant_message(content) == Msg("assistant", content, <<>>, NoId)

\* {"role": "assistant", "content": ..., "tool_calls": [...]}
assistant_tool_message(content, tool_calls) ==
    Msg("assistant", content, tool_calls, NoId)

\* {"role": "tool", "tool_call_id": tool_call.id, "content": result}
tool_message(tool_call, result) == Msg("tool", result, <<>>, tool_call.id)

\* tool_call.function.arguments is JSON text: well formed, denoting obj, or not.
JsonArgs(obj) == [wellformed |-> TRUE, obj |-> obj]
MalformedArgs == [wellformed |-> FALSE, obj |-> EmptyDict]

json_loads(arguments) ==
    IF arguments.wellformed THEN Returned(arguments.obj)
    ELSE Raised(<<"JSONDecodeError">>)

\* The service numbers the tool calls of a response with fresh ids.
with_ids(batch, first) ==
    [k \in 1..Len(batch) |->
        [id |-> first + k - 1, name |-> batch[k].name,
         arguments |-> batch[k].arguments]]

(***************************************************************************)
(* Inputs of the session model.                                            *)
(***************************************************************************)
Q0 == <<"A", " ", "k", "e", "y">>

Question == <<"When is Acme's renewal?">>
Approval == <<"Yes, search all sources">>

\* A session opens with a question; a later message may also be the approval.
UserTexts(n) == IF n = 0 THEN {Question} ELSE {Question, Approval}

FinalContents == { <<"Acme renews in FY26 [Source: ...]">> }

\* The tool calls the stub may request: a targeted search, the fallback search,
\* a tool outside the catalog, arguments that are no JSON, arguments without
\* the `query` key.
SessionCalls ==
    { [name |-> "search_salesforce_opportunities", arguments |-> JsonArgs([query |-> Q0])],
      [name |-> "search_general_fallback", arguments |-> JsonArgs([query |-> Q0])],
      [name |-> "lookup_weather", arguments |-> JsonArgs([query |-> Q0])],
      [name |-> "search_salesforce_opportunities", arguments |-> MalformedArgs],
      [name |-> "search_general_fallback", arguments |-> JsonArgs([url |-> Q0])] }

Batches == UNION { [1..n -> SessionCalls] : n \in 1..MaxFreeCalls }

\* The responses of a stub that asks for a tool every time: a tool outside the
\* catalog, with arguments that parse or with arguments that do not.
LoopBatch == << [name |-> "lookup_weather", arguments |-> JsonArgs([query |-> Q0])] >>
BrokenBatch == << [name |-> "lookup_weather", arguments |-> MalformedArgs] >>
LoopBatches == {LoopBatch, BrokenBatch}

Doc0 ==
    [document |-> [title |-> <<"Acme - Renewal FY26">>, url |-> <<"https://sf/1">>,
                   datasource |-> <<"salescloud">>],
     llmContent |-> PyStr(<<"r", "e", "n", "e", "w", "s">>)]

SessionOutcomes == { BackendOk(<<>>), BackendOk(<<Doc0>>) }

(***************************************************************************)
(* EPSAgentCLI: main's input loop and chat().                              *)
(***************************************************************************)
max_iterations == 10

MaxIterationsText == <<"Max iterations reached. Please try a more specific query.">>

Nothing == [kind |-> "none", text |-> <<>>]
Response(text) == [kind |-> "response", text |-> text]
Error(text) == [kind |-> "error", text |-> text]

\* Variant of next_call: the loop walks the calls from the back.
next_call_reversed(calls) == calls[Len(calls)]

\* for tool_call in assistant_message.tool_calls: the call taken next
next_call(calls) == Head(calls)

\* Variant of loop_exhausted: the loop runs one round too many.
loop_exhausted_late(rounds) == rounds >= max_iterations + 1

\* for iteration in range(max_iterations): the loop is over after this many rounds
loop_exhausted(rounds) == rounds >= max_iterations

\* Variant of after_tool: the next round starts after the first tool result.
after_tool_early(rest, rounds) ==
    IF loop_exhausted(rounds) THEN "awaiting" ELSE "reasoning"

\* where chat() goes once a tool result is appended and `rest` calls remain
after_tool(rest, rounds) ==
    IF rest # <<>> THEN "tools"
    ELSE IF loop_exhausted(rounds) THEN "awaiting"
    ELSE "reasoning"

Init ==
    /\ variant \in {"cli", "react"}
    /\ pc = "awaiting"
    /\ messages = << system_message >>
    /\ pending = <<>>
    /\ iteration = 0
    /\ llm_calls = 0
    /\ shown = Nothing
    /\ requests = <<>>
    /\ inputs = 0
    /\ free_calls = 0
    /\ stub \in {"free", "always_tools"}
    /\ next_id = 1
    /\ t_pc = "off"
    /\ t_in = <<>>
    /\ t_out = <<>>

\* main reads a message that is neither empty, "quit" nor "reset"; chat() starts
UserMessage(text) ==
    /\ variant = "cli"
    /\ pc = "awaiting"
    /\ inputs < MaxInputs
    /\ inputs' = inputs + 1
    /\ messages' = Append(messages, user_message(text))
    /\ iteration' = 0
    /\ llm_calls' = 0
    /\ shown' = Nothing
    /\ pending' = <<>>
    /\ pc' = "reasoning"
    /\ UNCHANGED <<variant, requests, free_calls, stub, next_id, t_pc, t_in, t_out>>

\* Variant of Reset: the history is emptied.
Reset_emptied ==
    /\ variant = "cli"
    /\ pc = "awaiting"
    /\ messages' = <<>>
    /\ UNCHANGED <<variant, pc, pending, iteration, llm_calls, shown, requests,
                   inputs, free_calls, stub, next_id, t_pc, t_in, t_out>>

\* main reads "reset": EPSAgentCLI.reset
Reset ==
    /\ variant = "cli"
    /\ pc = "awaiting"
    /\ messages' = << system_message >>
    /\ UNCHANGED <<variant, pc, pending, iteration, llm_calls, shown, requests,
                   inputs, free_calls, stub, next_id, t_pc, t_in, t_out>>

\* main reads "quit"
Quit ==
    /\ variant = "cli"
    /\ pc = "awaiting"
    /\ pc' = "exited"
    /\ UNCHANGED <<variant, messages, pending, iteration, llm_calls, shown,
                   requests, inputs, free_calls, stub, next_id, t_pc, t_in, t_out>>

\* Variant of abort: no handler, the exception ends the session.
abort_uncaught(e) ==
    /\ shown' = Error(e)
    /\ pending' = <<>>
    /\ pc' = "exited"

\* the exception leaves chat() and is caught by main's `except Exception`
abort(e) ==
    /\ shown' = Error(e)
    /\ pending' = <<>>
    /\ pc' = "awaiting"

\* client.chat.completions.create raises
ReasoningFails ==
    /\ variant = "cli"
    /\ pc = "reasoning"
    /\ stub = "free"
    /\ llm_calls' = llm_calls + 1
    /\ abort(<<"APIError">>)
    /\ UNCHANGED <<variant, messages, iteration, requests, inputs, free_calls,
                   stub, next_id, t_pc, t_in, t_out>>

\* the response carries no tool calls: chat() appends it and returns its content
ReasoningAnswers(content) ==
    /\ variant = "cli"
    /\ pc = "reasoning"
    /\ stub = "free"
    /\ llm_calls' = llm_calls + 1
    /\ messages' = Append(messages, assistant_message(content))
    /\ shown' = Response(content)
    /\ pc' = "awaiting"
    /\ UNCHANGED <<variant, pending, iteration, requests, inputs, free_calls,
                   stub, next_id, t_pc, t_in, t_out>>

\* the response carries tool calls: chat() appends it and starts on the calls
ReasoningRequestsTools(batch) ==
    /\ variant = "cli"
    /\ pc = "reasoning"
    /\ \/ stub = "always_tools" /\ batch \in LoopBatches /\ free_calls' = free_calls
       \/ /\ stub = "free"
          /\ free_calls + Len(batch) <= MaxFreeCalls
          /\ free_calls' = free_calls + Len(batch)
    /\ llm_calls' = llm_calls + 1
    /\ LET tool_calls == with_ids(batch, next_id) IN
         /\ messages' = Append(messages, assistant_tool_message(None, tool_calls))
         /\ pending' = tool_calls
    /\ next_id' = next_id + Len(batch)
    /\ pc' = "tools"
    /\ UNCHANGED <<variant, iteration, shown, requests, inputs, stub, t_pc, t_in, t_out>>

\* one pass of `for tool_call in assistant_message.tool_calls`
ExecuteToolCall(outcome) ==
    /\ variant = "cli"
    /\ pc = "tools"
    /\ LET tool_call == next_call(pending)
           args == json_loads(tool_call.arguments)
           run == execute_tool(tool_call.name, args.value, outcome)
           rounds == IF Tail(pending) = <<>> THEN iteration + 1 ELSE iteration
       IN IF args.raised
            THEN abort(args.value) /\ UNCHANGED <<messages, requests, iteration>>
          ELSE IF run.raised
            THEN abort(run.value) /\ UNCHANGED <<messages, requests, iteration>>
          ELSE /\ messages' = Append(messages, tool_message(tool_call, run.value))
               /\ requests' = requests \o run.requests
               /\ pending' = Tail(pending)
               /\ iteration' = rounds
               /\ pc' = after_tool(Tail(pending), rounds)
               /\ shown' = IF after_tool(Tail(pending), rounds) = "awaiting"
                             THEN Response(MaxIterationsText) ELSE shown
    /\ UNCHANGED <<variant, llm_calls, inputs, free_calls, stub, next_id,
                   t_pc, t_in, t_out>>

(***************************************************************************)
(* run_chat_session: the ReAct CLI's input loop and reasoning loop.        *)
(***************************************************************************)
react_steps == 5

ReactCalls ==
    { [name |-> "search_salesforce", arguments |-> JsonArgs([query |-> Q0])],
      [name |-> "search_general_fallback", arguments |-> JsonArgs([query |-> Q0])],
      [name |-> "lookup_weather", arguments |-> JsonArgs([query |-> Q0])],
      [name |-> "search_salesforce", arguments |-> MalformedArgs],
      [name |-> "search_general_fallback", arguments |-> JsonArgs([url |-> Q0])] }

ReactBatches == UNION { [1..n -> ReactCalls] : n \in 1..MaxFreeCalls }

ReactOutcomes ==
    { McpContent(<<>>), McpContent(<< TextBlock(<<"Acme - Renewal FY26">>) >>),
      McpException(<<"ConnectError">>) }

\* for step in range(5)
react_exhausted(rounds) == rounds >= react_steps

\* where the reasoning loop goes once a tool result is appended
react_after_tool(rest, rounds) ==
    IF rest # <<>> THEN "tools"
    ELSE IF react_exhausted(rounds) THEN "awaiting"
    ELSE "reasoning"

\* the loop reads a message that is no exit word and appends it
ReactUserMessage(text) ==
    /\ variant = "react"
    /\ pc = "awaiting"
    /\ inputs < MaxInputs
    /\ inputs' = inputs + 1
    /\ messages' = Append(messages, user_message(text))
    /\ iteration' = 0
    /\ llm_calls' = 0
    /\ shown' = Nothing
    /\ pending' = <<>>
    /\ pc' = "reasoning"
    /\ UNCHANGED <<variant, requests, free_calls, stub, next_id, t_pc, t_in, t_out>>

\* the loop reads "exit", "quit" or "q"
ReactExit ==
    /\ variant = "react"
    /\ pc = "awaiting"
    /\ pc' = "exited"
    /\ UNCHANGED <<variant, messages, pending, iteration, llm_calls, shown,
                   requests, inputs, free_calls, stub, next_id, t_pc, t_in, t_out>>

\* `except Exception as e: print(f"Error in agent loop: {e}"); break`
react_abort(e) ==
    /\ shown' = Error(<<"Error in agent loop: ">> \o e)
    /\ pending' = <<>>
    /\ pc' = "awaiting"

\* client.chat.completions.create raises
ReactReasoningFails ==
    /\ variant = "react"
    /\ pc = "reasoning"
    /\ stub = "free"
    /\ llm_calls' = llm_calls + 1
    /\ react_abort(<<"APIError">>)
    /\ UNCHANGED <<variant, messages, iteration, requests, inputs, free_calls,
                   stub, next_id, t_pc, t_in, t_out>>

\* the response carries no tool calls: it is appended and printed
ReactAnswers(content) ==
    /\ variant = "react"
    /\ pc = "reasoning"
    /\ stub = "free"
    /\ llm_calls' = llm_calls + 1
    /\ messages' = Append(messages, assistant_tool_message(content, <<>>))
    /\ shown' = Response(content)
    /\ pc' = "awaiting"
    /\ UNCHANGED <<variant, pending, iteration, requests, inputs, free_calls,
                   stub, next_id, t_pc, t_in, t_out>>

\* the response carries tool calls: it is appended and the calls are started
ReactRequestsTools(batch) ==
    /\ variant = "react"
    /\ pc = "reasoning"
    /\ \/ stub = "always_tools" /\ batch \in LoopBatches /\ free_calls' = free_calls
       \/ /\ stub = "free"
          /\ free_calls + Len(batch) <= MaxFreeCalls
          /\ free_calls' = free_calls + Len(batch)
    /\ llm_calls' = llm_calls + 1
    /\ LET tool_calls == with_ids(batch, next_id) IN
         /\ messages' = Append(messages, assistant_tool_message(None, tool_calls))
         /\ pending' = tool_calls
    /\ next_id' = next_id + Len(batch)
    /\ pc' = "tools"
    /\ UNCHANGED <<variant, iteration, shown, requests, inputs, stub, t_pc, t_in, t_out>>

\* one pass of `for tool_call in msg.tool_calls`
ReactExecuteToolCall(outcomes) ==
    /\ variant = "react"
    /\ pc = "tools"
    /\ Len(outcomes) = mcp_calls(Head(pending).name)
    /\ LET tool_call == next_call(pending)
           args == json_loads(tool_call.arguments)
           run == react_dispatch(tool_call.name, args.value, outcomes)
           rounds == IF Tail(pending) = <<>> THEN iteration + 1 ELSE iteration
       IN IF args.raised
            THEN react_abort(args.value) /\ UNCHANGED <<messages, requests, iteration>>
          ELSE IF run.raised
            THEN react_abort(run.value) /\ UNCHANGED <<messages, requests, iteration>>
          ELSE /\ messages' = Append(messages, tool_message(tool_call, run.value))
               /\ requests' = requests \o run.requests
               /\ pending' = Tail(pending)
               /\ iteration' = rounds
               /\ pc' = react_after_tool(Tail(pending), rounds)
               /\ shown' = shown
    /\ UNCHANGED <<variant, llm_calls, inputs, free_calls, stub, next_id,
                   t_pc, t_in, t_out>>

Next ==
    \/ \E text \in UserTexts(inputs) : UserMessage(text)
    \/ Reset
    \/ Quit
    \/ ReasoningFails
    \/ \E content \in FinalContents : ReasoningAnswers(content)
    \/ \E batch \in Batches \cup LoopBatches : ReasoningRequestsTools(batch)
    \/ \E outcome \in SessionOutcomes : ExecuteToolCall(outcome)
    \/ \E text \in UserTexts(inputs) : ReactUserMessage(text)
    \/ ReactExit
    \/ ReactReasoningFails
    \/ \E content \in FinalContents : ReactAnswers(content)
    \/ \E batch \in ReactBatches \cup LoopBatches : ReactRequestsTools(batch)
    \/ \E outcomes \in UNION { [1..n -> ReactOutcomes] : n \in 1..3 } :
          ReactExecuteToolCall(outcomes)

Spec == Init /\ [][Next]_vars

(***************************************************************************)
(* Unit harness: one operation applied to an input drawn at Init.  The     *)
(* session does not run.                                                   *)
(***************************************************************************)
session_off ==
    /\ variant = "unit"
    /\ pc = "off"
    /\ messages = <<>>
    /\ pending = <<>>
    /\ iteration = 0
    /\ llm_calls = 0
    /\ shown = Nothing
    /\ requests = <<>>
    /\ inputs = 0
    /\ free_calls = 0
    /\ stub = "free"
    /\ next_id = 1

MaxToolQueryLen == 2

QueryChars == {Quote, " ", "A", "K", "k", "e", "y"}

Strings(chars, n) == UNION { [1..k -> chars] : k \in 0..n }

ToolQueries == Strings(QueryChars, MaxToolQueryLen)

\* argument mappings: the one key `query`, another key, none, one key too many
ToolArgs ==
    { [query |-> q] : q \in ToolQueries }
        \cup { [url |-> Q0], EmptyDict, [query |-> Q0, limit |-> Q0] }

ToolOutcomes ==
    { BackendOk(<<>>), BackendOk(<<Doc0>>), BackendStatus(500),
      BackendException(<<"timed out">>) }

UnknownNames == {"unknown_tool", "search_salesforce", "read_full_document"}

InitTools ==
    /\ session_off
    /\ t_pc = "ready"
    /\ t_in \in [name : ToolNames \cup UnknownNames, args : ToolArgs,
                 outcome : ToolOutcomes]
    /\ t_out = <<>>

\* EPSAgentCLI.execute_tool(name, args)
InvokeTool ==
    /\ t_pc = "ready"
    /\ t_out' = execute_tool(t_in.name, t_in.args, t_in.outcome)
    /\ t_pc' = "done"
    /\ UNCHANGED <<t_in, variant, pc, messages, pending, iteration, llm_calls,
                   shown, requests, inputs, free_calls, stub, next_id>>

NextTools == InvokeTool

SpecTools == InitTools /\ [][NextTools]_vars

(***************************************************************************)
(* Unit harness of the search gateway: one call of glean_search.           *)
(***************************************************************************)
\* A second result, with a snippet list where Doc0 has llmContent.
Doc1 ==
    [document |-> [title |-> <<"Zeta - QBR notes">>, url |-> <<"https://drive/2">>,
                   datasource |-> <<"gdrive">>, author |-> [name |-> <<"Kim">>]],
     snippets |-> PyList(<< PyDict([text |-> <<"q", "b", "r">>]) >>)]

\* A 2xx response whose body has no "results" key.
BackendNoResultsKey == [kind |-> "ok", data |-> EmptyDict]

\* Every way one POST can end: 2xx bodies, non-2xx statuses, and the
\* exceptions of the transport, of the 30 s timeout and of response.json().
GatewayOutcomes ==
    { BackendOk(<<>>), BackendOk(<<Doc0>>), BackendOk(<<Doc0, Doc0>>),
      BackendOk(<<Doc1, Doc0, Doc0>>), BackendNoResultsKey,
      BackendStatus(401), BackendStatus(404), BackendStatus(500),
      BackendException(<<"timed out">>),
      BackendException(<<"[Errno 111] Connection refused">>),
      BackendException(<<"Expecting value: line 1 column 1 (char 0)">>) }

GatewayDatasources == { None, << <<"salescloud">> >>, << <<"gong">>, <<"slack">> >> }

GatewayFacets == { None, << type_filter("account") >> }

InitGateway ==
    /\ session_off
    /\ t_pc = "ready"
    /\ t_in \in [token : BOOLEAN, query : ToolQueries, datasources : GatewayDatasources,
                 num_results : {5, 10}, facet_filters : GatewayFacets,
                 outcome : GatewayOutcomes]
    /\ t_out = <<>>

\* glean_search(query, datasources, num_results, facet_filters)
InvokeGleanSearch ==
    /\ t_pc = "ready"
    /\ t_out' = glean_search_call(t_in.token, t_in.query, t_in.datasources,
                                  t_in.num_results, t_in.facet_filters, t_in.outcome)
    /\ t_pc' = "done"
    /\ UNCHANGED <<t_in, variant, pc, messages, pending, iteration, llm_calls,
                   shown, requests, inputs, free_calls, stub, next_id>>

NextGateway == InvokeGleanSearch

SpecGateway == InitGateway /\ [][NextGateway]_vars

(***************************************************************************)
(* Unit harness of the MCP tool variant: one tool of EPSVirtualTools,      *)
(* called the way run_chat_session dispatches it.                          *)
(***************************************************************************)
McpToolNames == ReactQueryTools \cup {"read_full_document", "lookup_weather"}

\* the outcomes of the (at most three) session.call_tool calls of one tool
McpOutcomeLists == [1..3 -> ReactOutcomes]

InitMcp ==
    /\ session_off
    /\ t_pc = "ready"
    /\ t_in \in [name : McpToolNames, args : ToolArgs, outcomes : McpOutcomeLists]
    /\ t_out = <<>>

InvokeMcpTool ==
    /\ t_pc = "ready"
    /\ t_out' = react_dispatch(t_in.name, t_in.args, t_in.outcomes)
    /\ t_pc' = "done"
    /\ UNCHANGED <<t_in, variant, pc, messages, pending, iteration, llm_calls,
                   shown, requests, inputs, free_calls, stub, next_id>>

NextMcp == InvokeMcpTool

SpecMcp == InitMcp /\ [][NextMcp]_vars

(***************************************************************************)
(* Unit harness of the query normalizer: quote_account_name applied to a   *)
(* query, and applied again to its own output.                             *)
(***************************************************************************)
MaxQueryPieces == 5

\* Queries are built from a quote, a blank, a tab, a letter that is no
\* keyword, a proper prefix of a keyword, and a keyword in two spellings.
QueryPieces ==
    { <<Quote>>, <<" ">>, <<"\t">>, <<"A">>, <<"k">>, <<"k", "e", "y">>, <<"K", "e", "y">> }

RECURSIVE Flatten(_)
Flatten(pieces) ==
    IF pieces = <<>> THEN <<>> ELSE Head(pieces) \o Flatten(Tail(pieces))

NormalizerQueries ==
    { Flatten(p) : p \in UNION { [1..n -> QueryPieces] : n \in 0..MaxQueryPieces } }

InitNormalizer ==
    /\ session_off
    /\ t_pc = "ready"
    /\ t_in \in [query : NormalizerQueries]
    /\ t_out = <<>>

\* quote_account_name(query), then quote_account_name of the result
ApplyNormalizer ==
    /\ t_pc = "ready"
    /\ t_out' = [once |-> quote_account_name(t_in.query),
                 twice |-> quote_account_name(quote_account_name(t_in.query))]
    /\ t_pc' = "done"
    /\ UNCHANGED <<t_in, variant, pc, messages, pending, iteration, llm_calls,
                   shown, requests, inputs, free_calls, stub, next_id>>

NextNormalizer == ApplyNormalizer

SpecNormalizer == InitNormalizer /\ [][NextNormalizer]_vars

(***************************************************************************)
(* Unit harness of the result formatter: format_results applied to a list  *)
(* of records and a source label.                                          *)
(***************************************************************************)
MaxRecords == 6

\* a text of n characters, no two neighbours alike
TextOf(n) == [i \in 1..n |-> ToString(i % 10)]

\* a record as glean_search builds it
Record(title, datasource, content) ==
    [title |-> title, url |-> <<"https://doc/">> \o title, snippets |-> content,
     datasource |-> datasource, author |-> <<"Unknown">>,
     updatedAt |-> <<"2025-01-31", "T00:00:00Z">>]

\* Records with a short text, with a text one character over the limit of
\* the preview, with a snippet list whose first text is exactly at the
\* limit; the error record of a failed search, which has none of the keys.
FormatterRecords ==
    { Record(<<"T1">>, <<"salescloud">>, PyStr(TextOf(3))),
      Record(<<"T2">>, <<"gong">>, PyStr(TextOf(501))),
      Record(<<"T3">>, <<"gdrive">>, PyList(<< PyDict([text |-> TextOf(500)]) >>)),
      [error |-> <<"Glean API error: ", "500">>] }

FormatterLabels == { <<"Salesforce Accounts">>, <<"X">> }

InitFormatter ==
    /\ session_off
    /\ t_pc = "ready"
    /\ t_in \in [results : UNION { [1..n -> FormatterRecords] : n \in 0..MaxRecords },
                 source_name : FormatterLabels]
    /\ t_out = <<>>

\* format_results(results, source_name)
ApplyFormatter ==
    /\ t_pc = "ready"
    /\ t_out' = format_results(t_in.results, t_in.source_name)
    /\ t_pc' = "done"
    /\ UNCHANGED <<t_in, variant, pc, messages, pending, iteration, llm_calls,
                   shown, requests, inputs, free_calls, stub, next_id>>

NextFormatter == ApplyFormatter

SpecFormatter == InitFormatter /\ [][NextFormatter]_vars

(***************************************************************************)
(* Reading the history.                                                    *)
(***************************************************************************)
Range(f) == { f[i] : i \in DOMAIN f }

Contains(text, piece) == \E i \in 1..Len(text) : text[i] = piece

\* index of the last user message, 0 if there is none
LastUser(msgs) ==
    LET U == { i \in 1..Len(msgs) : msgs[i].role = "user" } IN
    IF U = {} THEN 0 ELSE CHOOSE i \in U : \A j \in U : j <= i

\* the messages of the current user turn, after the user message
TurnIndices(msgs) == (LastUser(msgs) + 1)..Len(msgs)

RequestsTools(m) == m.role = "assistant" /\ m.tool_calls # <<>>

\* reasoning responses of the current turn that requested tools
ToolRounds(msgs) == Cardinality({ i \in TurnIndices(msgs) : RequestsTools(msgs[i]) })

\* every tool call of message i has a tool result after it
Answered(msgs, i) ==
    \A k \in 1..Len(msgs[i].tool_calls) :
        \E j \in (i + 1)..Len(msgs) :
            msgs[j].role = "tool" /\ msgs[j].tool_call_id = msgs[i].tool_calls[k].id

\* the name of the tool whose result is message j
ToolNameOf(msgs, j) ==
    LET calls == UNION { Range(msgs[i].tool_calls) : i \in 1..Len(msgs) }
        call == CHOOSE c \in calls : c.id = msgs[j].tool_call_id
    IN call.name

\* the catalog of the program that runs
Catalog == IF variant = "cli" THEN ToolNames
           ELSE ReactQueryTools \cup {"read_full_document"}

Ceiling == IF variant = "cli" THEN max_iterations ELSE react_steps

(***************************************************************************)
(* C1: EPSAgentCLI.chat issues at most 10 reasoning-service calls for one  *)
(* user message, never starts a call at the ceiling, and when all 10       *)
(* responses requested tools and chat returns, it returns the "Max         *)
(* iterations reached" sentinel.                                           *)
(***************************************************************************)
C1_ChatStopsAtCeiling ==
    variant = "cli" =>
        /\ llm_calls <= 10
        /\ (pc = "reasoning" => llm_calls < 10)
        /\ (pc = "awaiting" /\ ToolRounds(messages) = 10 /\ shown.kind = "response")
              => shown.text = <<"Max iterations reached. Please try a more specific query.">>

C1_Witness ==
    /\ variant = "cli"
    /\ pc = "awaiting"
    /\ llm_calls = 10
    /\ ToolRounds(messages) = 10
    /\ shown = Response(MaxIterationsText)

(***************************************************************************)
(* C2: within one user turn, the session is about to call the reasoning    *)
(* service only when every tool call requested earlier in the turn has its *)
(* tool-result message in the history.                                     *)
(***************************************************************************)
C2_NoCallBeforeResults ==
    pc = "reasoning" =>
        \A i \in TurnIndices(messages) :
            RequestsTools(messages[i]) => Answered(messages, i)

C2_Witness ==
    /\ variant = "cli"
    /\ pc = "reasoning"
    /\ \E i \in TurnIndices(messages) :
          /\ Len(messages[i].tool_calls) = 2
          /\ Answered(messages, i)

(***************************************************************************)
(* C3: the tool results of a response are appended one at a time in the    *)
(* order of its tool calls: the k-th message after the assistant message   *)
(* is the result carrying the id of its k-th call, and the calls still to  *)
(* run are exactly those after the ones already answered.                  *)
(***************************************************************************)
C3_ToolsRunInRequestOrder ==
    /\ \A j \in 1..Len(messages) :
          messages[j].role = "tool" =>
              \E i \in 1..(j - 1) :
                  /\ RequestsTools(messages[i])
                  /\ j - i <= Len(messages[i].tool_calls)
                  /\ messages[i].tool_calls[j - i].id = messages[j].tool_call_id
                  /\ \A m \in (i + 1)..j : messages[m].role = "tool"
    /\ pc = "tools" =>
          \E i \in 1..Len(messages) :
              /\ RequestsTools(messages[i])
              /\ \A m \in (i + 1)..Len(messages) : messages[m].role = "tool"
              /\ pending # <<>>
              /\ pending = SubSeq(messages[i].tool_calls, Len(messages) - i + 1,
                                  Len(messages[i].tool_calls))

C3_Witness ==
    /\ variant = "cli"
    /\ \E i \in 1..Len(messages) :
          /\ Len(messages[i].tool_calls) = 2
          /\ i + 2 <= Len(messages)
          /\ messages[i + 1].tool_call_id = messages[i].tool_calls[1].id
          /\ messages[i + 2].tool_call_id = messages[i].tool_calls[2].id

(***************************************************************************)
(* C4: when a reasoning response carries no tool calls, the step appends   *)
(* exactly one assistant message holding its content, that content is what *)
(* is returned, and until the next user message no reasoning call is       *)
(* issued and no tool is executed.                                         *)
(***************************************************************************)
C4_FinalAnswerStep ==
    /\ (pc = "reasoning" /\ pc' = "awaiting" /\ shown'.kind = "response")
          => messages' = Append(messages, Msg("assistant", shown'.text, <<>>, NoId))
    /\ (pc = "awaiting" /\ inputs' = inputs)
          => /\ llm_calls' = llm_calls
             /\ requests' = requests
             /\ shown' = shown
             /\ pc' \in {"awaiting", "exited"}

C4_FinalAnswerEndsTurn == [][C4_FinalAnswerStep]_vars

C4_Witness ==
    /\ variant = "cli"
    /\ pc = "awaiting"
    /\ llm_calls = 2
    /\ shown.kind = "response"
    /\ messages[Len(messages)] = assistant_message(shown.text)
    /\ shown.text \in FinalContents

(***************************************************************************)
(* C5: search_general_fallback is executed only after an earlier targeted  *)
(* search returned zero results and a later user message approved          *)
(* searching all sources.                                                  *)
(***************************************************************************)
IsZeroResults(content) ==
    /\ content # <<>>
    /\ \/ content[1] = "No results found in "
       \/ content[Len(content)] \in {"No Salesforce records found.",
                                     "No strategy docs found."}

C5_FallbackOnlyAfterApproval ==
    \A j \in 1..Len(messages) :
        (messages[j].role = "tool"
            /\ ToolNameOf(messages, j) = "search_general_fallback")
        => \E i \in 1..(j - 1) : \E k \in (i + 1)..(j - 1) :
              /\ messages[i].role = "tool"
              /\ ToolNameOf(messages, i) # "search_general_fallback"
              /\ IsZeroResults(messages[i].content)
              /\ messages[k] = user_message(Approval)

(***************************************************************************)
(* C6: every failure of a turn (the reasoning call fails, a tool raises,   *)
(* the arguments are malformed) stays inside the turn and is appended to   *)
(* the history as a text message.                                          *)
(***************************************************************************)
C6_FailuresBecomeMessages ==
    shown.kind = "error" =>
        /\ messages[Len(messages)].role \in {"assistant", "tool"}
        /\ messages[Len(messages)].content = shown.text

(***************************************************************************)
(* C7: a failure of the reasoning service or of a tool aborts only the     *)
(* turn: the step leaves the history as it was, shows an error and puts    *)
(* the session back to awaiting input.                                     *)
(***************************************************************************)
C7_FailureStep ==
    (pc \in {"reasoning", "tools"} /\ shown'.kind = "error")
        => /\ messages' = messages
           /\ pc' = "awaiting"
           /\ shown'.text # <<>>

C7_FailureAbortsOnlyTheTurn == [][C7_FailureStep]_vars

\* a turn failed at the reasoning call and the next message was answered
C7_Witness ==
    /\ variant = "cli"
    /\ pc = "awaiting"
    /\ Len(messages) = 4
    /\ messages[2].role = "user"
    /\ messages[3].role = "user"
    /\ messages[4].role = "assistant"
    /\ shown.kind = "response"

(***************************************************************************)
(* C8: a tool name outside the catalog makes execute_tool return a text    *)
(* containing "Unknown tool", for every argument mapping, without raising  *)
(* and without a search request; the loop appends it as the tool result of *)
(* the requesting call and goes on (to the next call, or to the next       *)
(* reasoning call when the loop is not exhausted).                         *)
(***************************************************************************)
C8_UnknownToolReturns ==
    \A name \in UnknownNames \cup {"lookup_weather"} :
        \A args \in ToolArgs : \A outcome \in ToolOutcomes :
            LET run == execute_tool(name, args, outcome) IN
            /\ ~run.raised
            /\ Contains(run.value, "Unknown tool")
            /\ run.requests = <<>>

C8_UnknownToolStep ==
    (/\ pc = "tools"
     /\ next_call(pending).name \notin Catalog
     /\ next_call(pending).arguments.wellformed)
    => /\ Len(messages') = Len(messages) + 1
       /\ SubSeq(messages', 1, Len(messages)) = messages
       /\ messages'[Len(messages')].role = "tool"
       /\ messages'[Len(messages')].tool_call_id = Head(pending).id
       /\ Contains(messages'[Len(messages')].content, "Unknown tool")
       /\ requests' = requests
       /\ shown'.kind # "error"
       /\ (Len(pending) > 1 => pc' = "tools")
       /\ (Len(pending) = 1 /\ iteration + 1 < Ceiling => pc' = "reasoning")

C8_UnknownToolIsFedBack == []C8_UnknownToolReturns /\ [][C8_UnknownToolStep]_vars

C8_Witness ==
    /\ variant = "cli"
    /\ pc = "reasoning"
    /\ messages[Len(messages)].role = "tool"
    /\ messages[Len(messages)].content = <<"Unknown tool", ": ", "lookup_weather">>

(***************************************************************************)
(* C9: every catalog tool posts exactly one search request, whose target   *)
(* applications and facet filter are those of the tool, whatever the       *)
(* query: opportunities, accounts and contacts search salescloud with      *)
(* type = opportunity, account, contact; metrics salescloud and looker;    *)
(* strategy docs gdrive; communications gong, slack and gmail; the         *)
(* fallback has no application restriction; the last four have no facet.   *)
(***************************************************************************)
RoutedApps(name) ==
    CASE name \in {"search_salesforce_opportunities", "search_salesforce_accounts",
                   "search_salesforce_contacts"} -> { <<"salescloud">> }
      [] name = "search_metrics_and_dashboards" -> { <<"salescloud">>, <<"looker">> }
      [] name = "search_strategy_docs" -> { <<"gdrive">> }
      [] name = "search_communications" -> { <<"gong">>, <<"slack">>, <<"gmail">> }
      [] name = "search_general_fallback" -> {}

RoutedFacets(name) ==
    CASE name = "search_salesforce_opportunities" -> { <<"type", "EQUALS", "opportunity">> }
      [] name = "search_salesforce_accounts" -> { <<"type", "EQUALS", "account">> }
      [] name = "search_salesforce_contacts" -> { <<"type", "EQUALS", "contact">> }
      [] OTHER -> {}

\* the application restriction and the facet predicates of a posted request
AppsOf(request) ==
    IF "datasourcesFilter" \in DOMAIN request.requestOptions
      THEN Range(request.requestOptions.datasourcesFilter) ELSE {}

FacetsOf(request) ==
    IF "facetFilters" \in DOMAIN request.requestOptions
      THEN UNION { { <<f.fieldName, v.relationType, v.value>> : v \in Range(f.values) } :
                     f \in Range(request.requestOptions.facetFilters) }
      ELSE {}

QueryCall == t_in.name \in ToolNames /\ DOMAIN t_in.args = {"query"}

C9_RoutingIsFixedPerTool ==
    (t_pc = "done" /\ QueryCall) =>
        /\ ~t_out.raised
        /\ Len(t_out.requests) = 1
        /\ AppsOf(t_out.requests[1]) = RoutedApps(t_in.name)
        /\ FacetsOf(t_out.requests[1]) = RoutedFacets(t_in.name)
        /\ ("datasourcesFilter" \in DOMAIN t_out.requests[1].requestOptions
               <=> t_in.name # "search_general_fallback")

C9_Witness ==
    /\ t_pc = "done"
    /\ t_in.name = "search_communications"
    /\ t_in.args = [query |-> <<"A", " ">>]
    /\ Len(t_out.requests) = 1
    /\ AppsOf(t_out.requests[1]) = { <<"gong">>, <<"slack">>, <<"gmail">> }

(***************************************************************************)
(* C10: the query text a query-based catalog tool sends to the search      *)
(* gateway is the normalized query argument, quote_account_name(q).        *)
(***************************************************************************)
C10_GatewayQueryIsNormalized ==
    (t_pc = "done" /\ QueryCall) =>
        \A i \in 1..Len(t_out.requests) :
            t_out.requests[i].query = quote_account_name(t_in.args.query)

(***************************************************************************)
(* C11: with the API token set, glean_search never raises, whatever the    *)
(* backend does: it returns a list, and when the request failed (non-2xx   *)
(* status, transport exception, timeout, unparsable body) the list is one  *)
(* record carrying an error text.                                          *)
(***************************************************************************)
IsErrorList(value) ==
    /\ Len(value) = 1
    /\ DOMAIN value[1] = {"error"}
    /\ value[1].error # <<>>

C11_GleanSearchNeverRaises ==
    (t_pc = "done" /\ t_in.token) =>
        /\ ~t_out.raised
        /\ (t_in.outcome.kind # "ok" => IsErrorList(t_out.value))
        /\ (t_in.outcome.kind = "ok" =>
              \A i \in 1..Len(t_out.value) : "error" \notin DOMAIN t_out.value[i])

C11_Witness ==
    /\ t_pc = "done"
    /\ t_in.token
    /\ t_in.outcome = BackendException(<<"timed out">>)
    /\ ~t_out.raised
    /\ t_out.value = << [error |-> <<"Glean error: ", "timed out">>] >>

(***************************************************************************)
(* C12: a catalog tool returns "No results found in <label>." exactly when *)
(* the backend request succeeded with an empty result list; when the       *)
(* request failed the tool returns the error message, never that sentence. *)
(***************************************************************************)
SourceLabel(name) ==
    CASE name = "search_salesforce_opportunities" -> <<"Salesforce Opportunities">>
      [] name = "search_salesforce_accounts" -> <<"Salesforce Accounts">>
      [] name = "search_salesforce_contacts" -> <<"Salesforce Contacts">>
      [] name = "search_metrics_and_dashboards" -> <<"Metrics (Salesforce + Looker)">>
      [] name = "search_strategy_docs" -> <<"Google Drive">>
      [] name = "search_communications" -> <<"Communications (Gong/Slack/Gmail)">>
      [] name = "search_general_fallback" -> <<"All Sources">>

NoResultsText(name) == <<"No results found in ">> \o SourceLabel(name) \o <<".">>

ErrorText(outcome) ==
    IF outcome.kind = "status"
      THEN <<"Glean API error: ", ToString(outcome.status_code)>>
      ELSE <<"Glean error: ">> \o outcome.text

SucceededEmpty(outcome) ==
    outcome.kind = "ok" /\ Get(outcome.data, "results", <<>>) = <<>>

C12_ZeroResultsVersusFailure ==
    (t_pc = "done" /\ QueryCall) =>
        /\ ~t_out.raised
        /\ (t_out.value = NoResultsText(t_in.name) <=> SucceededEmpty(t_in.outcome))
        /\ (t_out.value # <<>> /\ t_out.value[1] = "No results found in "
               => SucceededEmpty(t_in.outcome))
        /\ (t_in.outcome.kind # "ok" => t_out.value = ErrorText(t_in.outcome))

C12_Witness ==
    /\ t_pc = "done"
    /\ QueryCall
    /\ t_in.name = "search_strategy_docs"
    /\ t_in.outcome = BackendStatus(500)
    /\ t_out.value = <<"Glean API error: ", "500">>

(***************************************************************************)
(* C14: no retries.  One invocation of a catalog tool posts exactly one    *)
(* request to the search backend; when that request fails no second one    *)
(* is posted and the failure comes back as the error result.               *)
(***************************************************************************)
C14_NoRetries ==
    (t_pc = "done" /\ QueryCall) =>
        /\ Len(t_out.requests) = 1
        /\ t_out.requests[1].query = t_in.args.query
        /\ (t_in.outcome.kind # "ok"
               => /\ ~t_out.raised
                  /\ t_out.value[1] \in {"Glean error: ", "Glean API error: "})

C14_Witness ==
    /\ t_pc = "done"
    /\ QueryCall
    /\ t_in.outcome = BackendException(<<"timed out">>)
    /\ Len(t_out.requests) = 1
    /\ t_out.value = <<"Glean error: ", "timed out">>

(***************************************************************************)
(* C13: in the MCP tool variant a search call that fails at the transport  *)
(* level shows in the string the tool returns: the string differs from     *)
(* the one the tool returns when that search succeeds with zero results.   *)
(***************************************************************************)
\* the calls a tool issued that failed at the transport level
FailedCalls(name, outcomes) ==
    { i \in 1..mcp_calls(name) : outcomes[i].kind = "exception" }

\* the same outcomes, every failed call succeeding with zero results instead
WithZeroResults(outcomes) ==
    [i \in DOMAIN outcomes |->
        IF outcomes[i].kind = "exception" THEN McpContent(<<>>) ELSE outcomes[i]]

McpQueryCall == t_in.name \in ReactQueryTools /\ "query" \in DOMAIN t_in.args

C13_McpTransportFailureIsVisible ==
    (t_pc = "done" /\ McpQueryCall /\ FailedCalls(t_in.name, t_in.outcomes) # {}) =>
        t_out.value # react_dispatch(t_in.name, t_in.args,
                                     WithZeroResults(t_in.outcomes)).value

(***************************************************************************)
(* C15: in the ReAct variant, a turn whose 5 reasoning rounds all request  *)
(* tools ends with a "max iterations reached" message shown to the user    *)
(* before the loop awaits the next input.                                  *)
(***************************************************************************)
C15_ReactEmitsMaxIterations ==
    (variant = "react" /\ pc = "awaiting" /\ llm_calls = react_steps
        /\ iteration = react_steps)
    => shown.kind = "response"

(***************************************************************************)
(* C16: the history only grows during a session.  Every step of a turn     *)
(* appends to the history and leaves what was there unchanged; the first   *)
(* message is always the system message; the one step that shortens the    *)
(* history is reset, which leaves exactly one system message whatever the  *)
(* history held.                                                           *)
(***************************************************************************)
IsPrefixOf(old, new) ==
    /\ Len(old) <= Len(new)
    /\ SubSeq(new, 1, Len(old)) = old

C16_StartsWithSystemMessage ==
    /\ messages # <<>>
    /\ messages[1] = system_message
    /\ \A i \in 2..Len(messages) : messages[i].role # "system"

C16_HistoryStep ==
    \/ IsPrefixOf(messages, messages')
    \/ /\ variant = "cli"
       /\ pc = "awaiting" /\ pc' = "awaiting"
       /\ messages' = << system_message >>

C16_HistoryOnlyGrows == []C16_StartsWithSystemMessage /\ [][C16_HistoryStep]_vars

\* reset has run on a history that held a whole turn with a tool call
C16_Witness ==
    /\ variant = "cli"
    /\ pc = "awaiting"
    /\ inputs >= 1
    /\ next_id > 1
    /\ messages = << system_message >>

(***************************************************************************)
(* C17: the normalizer is idempotent: applying quote_account_name to its   *)
(* own output gives that output again, for every query.                    *)
(***************************************************************************)
C17_NormalizerIdempotent ==
    t_pc = "done" => t_out.twice = t_out.once

\* a query the first application changes
C17_Witness ==
    /\ t_pc = "done"
    /\ t_in.query = <<"A", " ", "k", "e", "y">>
    /\ t_out.once = <<Quote, "A", Quote, " ", "k", "e", "y">>
    /\ t_out.twice = t_out.once

(***************************************************************************)
(* C18: a query that begins with a quote character is returned unchanged,  *)
(* character for character.                                                *)
(***************************************************************************)
StartsWithQuote(query) == query # <<>> /\ query[1] = Quote

C18_QuotedQueryUnchanged ==
    (t_pc = "done" /\ StartsWithQuote(t_in.query)) => t_out.once = t_in.query

\* a quoted query with a doubled blank and a trailing tab, which a second
\* tokenization would not keep
C18_Witness ==
    /\ t_pc = "done"
    /\ t_in.query = <<Quote, "A", " ", " ", "\t">>
    /\ t_out.once = t_in.query

(***************************************************************************)
(* The tokens of a query, read off the positions of its characters: a      *)
(* token is a maximal run of characters that are not whitespace.           *)
(***************************************************************************)
IsBlank(c) == c \in {" ", "\t", "\n"}

TokenStarts(q) ==
    { i \in 1..Len(q) : ~IsBlank(q[i]) /\ (i = 1 \/ IsBlank(q[i - 1])) }

TokenEnd(q, i) ==
    CHOOSE j \in i..Len(q) :
        /\ \A k \in i..j : ~IsBlank(q[k])
        /\ (j = Len(q) \/ IsBlank(q[j + 1]))

Tokens(q) ==
    [k \in 1..Cardinality(TokenStarts(q)) |->
        LET i == CHOOSE x \in TokenStarts(q) :
                     Cardinality({ y \in TokenStarts(q) : y < x }) = k - 1
        IN SubSeq(q, i, TokenEnd(q, i))]

IsKeyword(token) == lower(token) \in action_words

HasKeyword(q) == \E k \in 1..Len(Tokens(q)) : IsKeyword(Tokens(q)[k])

\* the position of the first keyword token
FirstKeyword(q) ==
    CHOOSE k \in 1..Len(Tokens(q)) :
        /\ IsKeyword(Tokens(q)[k])
        /\ \A j \in 1..(k - 1) : ~IsKeyword(Tokens(q)[j])

SpaceJoined(tokens) == join(<<" ">>, tokens)

(***************************************************************************)
(* C19: for a query that does not start with a quote, the entity phrase is *)
(* the tokens before the first token that is an action keyword in any      *)
(* letter case.  The output is that phrase joined by single blanks inside  *)
(* double quotes, a blank, and every remaining token (the keyword and all  *)
(* after it, keyword or not) joined by single blanks.  When the first      *)
(* token is a keyword the query is returned unchanged.                     *)
(***************************************************************************)
C19_KeywordBoundary ==
    (t_pc = "done" /\ ~StartsWithQuote(t_in.query) /\ HasKeyword(t_in.query)) =>
        LET tokens == Tokens(t_in.query)
            k == FirstKeyword(t_in.query)
        IN IF k = 1 THEN t_out.once = t_in.query
           ELSE t_out.once = <<Quote>> \o SpaceJoined(SubSeq(tokens, 1, k - 1))
                               \o <<Quote, " ">>
                               \o SpaceJoined(SubSeq(tokens, k, Len(tokens)))

\* "A Key A": the keyword in another letter case, a non-keyword after it
C19_Witness ==
    /\ t_pc = "done"
    /\ t_in.query = <<"A", " ", "K", "e", "y", " ", "A">>
    /\ t_out.once = <<Quote, "A", Quote, " ", "K", "e", "y", " ", "A">>

(***************************************************************************)
(* C20: a query that contains no action keyword token is returned          *)
(* unchanged.                                                              *)
(***************************************************************************)
C20_NoKeywordUnchanged ==
    (t_pc = "done" /\ ~HasKeyword(t_in.query)) => t_out.once = t_in.query

(***************************************************************************)
(* C20, as the code has it: a query without an action keyword token is     *)
(* returned unchanged only when it starts with a quote or has no token;    *)
(* otherwise all its tokens, joined by single blanks, come back inside     *)
(* double quotes.                                                          *)
(***************************************************************************)
C20_NoKeywordIsQuotedWhole ==
    (t_pc = "done" /\ ~HasKeyword(t_in.query)) =>
        IF StartsWithQuote(t_in.query) \/ Tokens(t_in.query) = <<>>
          THEN t_out.once = t_in.query
          ELSE t_out.once = <<Quote>> \o SpaceJoined(Tokens(t_in.query)) \o <<Quote>>

\* "A  k": two tokens, no keyword
C20_Witness ==
    /\ t_pc = "done"
    /\ t_in.query = <<"A", " ", " ", "k">>
    /\ t_out.once = <<Quote, "A", " ", "k", Quote>>

(***************************************************************************)
(* C21: for every source label X, format_results([], X) is exactly         *)
(* "No results found in X.".                                               *)
(***************************************************************************)
C21_EmptyInputLaw ==
    (t_pc = "done" /\ t_in.results = <<>>) =>
        t_out = <<"No results found in ">> \o t_in.source_name \o <<".">>

C21_Witness ==
    /\ t_pc = "done"
    /\ t_in.results = <<>>
    /\ t_in.source_name = <<"X">>
    /\ t_out = <<"No results found in ", "X", ".">>

(***************************************************************************)
(* Reading a formatted text: where its entries start, what its header      *)
(* says.                                                                   *)
(***************************************************************************)
Positions(text, piece) == { i \in 1..Len(text) : text[i] = piece }

\* the members of a set of positions, in increasing order
InOrder(S) ==
    [k \in 1..Cardinality(S) |->
        CHOOSE x \in S : Cardinality({ y \in S : y < x }) = k - 1]

EntryStarts(text) == InOrder(Positions(text, "**["))

HasErrorMarker(r) == Get(r, "error", None) # None

\* the list is rendered: it is not empty and its first record is no error
IsRendered(results) == results # <<>> /\ ~HasErrorMarker(results[1])

(***************************************************************************)
(* C22: for a non-empty list of n records whose first record carries no    *)
(* error marker, the body has exactly min(n, 5) entries, numbered from 1   *)
(* in the order of the input, and the header's count reads n.              *)
(***************************************************************************)
C22_TruncatesToFive ==
    (t_pc = "done" /\ IsRendered(t_in.results)) =>
        LET n == Len(t_in.results)
            starts == EntryStarts(t_out)
        IN /\ Len(starts) = Min(n, 5)
           /\ \A k \in 1..Len(starts) :
                 /\ t_out[starts[k] + 1] = ToString(k)
                 /\ t_out[starts[k] + 2] = "] "
                 /\ t_out[starts[k] + 3] = Get(t_in.results[k], "title", <<"Untitled">>)[1]
           /\ t_out[1] = "Found "
           /\ t_out[2] = ToString(n)

\* six records, five entries
C22_Witness ==
    /\ t_pc = "done"
    /\ t_in.results =
         [k \in 1..6 |->
            IF k = 1 THEN Record(<<"T2">>, <<"gong">>, PyStr(TextOf(501)))
            ELSE IF k = 6
              THEN Record(<<"T3">>, <<"gdrive">>, PyList(<< PyDict([text |-> TextOf(500)]) >>))
            ELSE Record(<<"T1">>, <<"salescloud">>, PyStr(TextOf(3)))]
    /\ Len(EntryStarts(t_out)) = 5
    /\ t_out[2] = "6"

(***************************************************************************)
(* C23: the header's list of distinct sources holds the source of every    *)
(* record of the input, also of the records after the five rendered ones.  *)
(***************************************************************************)
\* the pieces of the header between "[Datasources in results: " and "]"
ListedSources(text) ==
    LET open == CHOOSE i \in 1..Len(text) : text[i] = "[Datasources in results: "
        close == CHOOSE j \in (open + 1)..Len(text) :
                     /\ text[j] = "]\n\n"
                     /\ \A k \in (open + 1)..(j - 1) : text[k] # "]\n\n"
    IN { text[k] : k \in (open + 1)..(close - 1) } \ { ", " }

SourceOf(r) == Get(r, "datasource", <<"Unknown">>)[1]

C23_HeaderListsEverySource ==
    (t_pc = "done" /\ IsRendered(t_in.results)) =>
        \A i \in 1..Len(t_in.results) :
            SourceOf(t_in.results[i]) \in ListedSources(t_out)

(***************************************************************************)
(* C24: when the first record of a list carries an error marker,           *)
(* format_results returns exactly that error message: no header and no     *)
(* entry, whatever records follow.                                         *)
(***************************************************************************)
C24_ErrorRecordVerbatim ==
    (t_pc = "done" /\ t_in.results # <<>> /\ HasErrorMarker(t_in.results[1])) =>
        /\ t_out = t_in.results[1].error
        /\ Positions(t_out, "Found ") = {}
        /\ EntryStarts(t_out) = <<>>

\* an error record followed by a record with content
C24_Witness ==
    /\ t_pc = "done"
    /\ t_in.results = << [error |-> <<"Glean API error: ", "500">>],
                         Record(<<"T1">>, <<"salescloud">>, PyStr(TextOf(3))) >>
    /\ t_out = <<"Glean API error: ", "500">>

(***************************************************************************)
(* C25: the content preview of a rendered record is the record's content   *)
(* itself when that has at most 500 characters, and otherwise its first    *)
(* 500 characters followed by "..."; it never exceeds 503 characters.      *)
(***************************************************************************)
\* the first position from `from` on that holds `piece`
NextPosition(text, from, piece) ==
    CHOOSE i \in from..Len(text) :
        /\ text[i] = piece
        /\ \A j \in from..(i - 1) : text[j] # piece

\* the preview printed in the entry that starts at position `start`: what
\* stands between "- Content: " and "- URL: ", nothing without the former
PreviewAt(text, start) ==
    LET url == NextPosition(text, start, "\n- URL: ")
        marks == { i \in start..url : text[i] = "\n- Content: " }
    IN IF marks = {} THEN <<>>
       ELSE SubSeq(text, (CHOOSE i \in marks : TRUE) + 1, url - 1)

C25_PreviewClippedAt500 ==
    (t_pc = "done" /\ IsRendered(t_in.results)) =>
        \A k \in 1..Len(EntryStarts(t_out)) :
            LET content == raw_snippet_text(t_in.results[k])
                preview == PreviewAt(t_out, EntryStarts(t_out)[k])
            IN /\ Len(content) <= 500 => preview = content
               /\ Len(content) > 500 =>
                     preview = SubSeq(content, 1, 500) \o <<".", ".", ".">>
               /\ Len(preview) <= 503

\* a text of 501 characters and one of exactly 500
C25_Witness ==
    /\ t_pc = "done"
    /\ t_in.results =
         << Record(<<"T2">>, <<"gong">>, PyStr(TextOf(501))),
            Record(<<"T3">>, <<"gdrive">>, PyList(<< PyDict([text |-> TextOf(500)]) >>)) >>
    /\ Len(PreviewAt(t_out, EntryStarts(t_out)[1])) = 503
    /\ PreviewAt(t_out, EntryStarts(t_out)[2]) = TextOf(500)

(***************************************************************************)
(* C26: read_full_document never raises.  Below its heading line it        *)
(* returns the text of the first content block when the read returns       *)
(* content, "No content found." when the read returns no content, and an   *)
(* "Error reading document" text when the read call fails.                 *)
(***************************************************************************)
ReadCall == t_in.name = "read_full_document" /\ "url" \in DOMAIN t_in.args

DocumentHeading(url) == <<"--- DOCUMENT CONTENT FOR '">> \o url \o <<"' ---\n">>

C26_ReadFullDocumentNeverRaises ==
    (t_pc = "done" /\ ReadCall) =>
        LET read == t_in.outcomes[1]
            body == SubSeq(t_out.value, Len(DocumentHeading(t_in.args.url)) + 1,
                           Len(t_out.value))
        IN /\ ~t_out.raised
           /\ SubSeq(t_out.value, 1, Len(DocumentHeading(t_in.args.url)))
                 = DocumentHeading(t_in.args.url)
           /\ (read.kind = "content" /\ read.content # <<>>
                 => body = read.content[1].text)
           /\ (read.kind = "content" /\ read.content = <<>>
                 => body = <<"No content found.">>)
           /\ (read.kind = "exception"
                 => body = <<"Error reading document: ">> \o read.text)

\* the read call fails
C26_Witness ==
    /\ t_pc = "done"
    /\ ReadCall
    /\ t_in.outcomes[1] = McpException(<<"ConnectError">>)
    /\ ~t_out.raised
    /\ t_out.value = DocumentHeading(t_in.args.url)
                        \o <<"Error reading document: ", "ConnectError">>

(***************************************************************************)
(* C27: the payload glean_search posts holds the datasourcesFilter key     *)
(* exactly when the datasources argument is a non-empty list, and the      *)
(* facetFilters key exactly when the facet filters are non-empty, each     *)
(* with the argument as given; returnLlmContentOverSnippets is always      *)
(* true; the query text and the page size are those of the call.           *)
(***************************************************************************)
C27_PayloadKeys ==
    (t_pc = "done" /\ t_in.token) =>
        /\ Len(t_out.requests) = 1
        /\ LET sent == t_out.requests[1]
               options == sent.requestOptions
           IN /\ "datasourcesFilter" \in DOMAIN options <=> t_in.datasources # <<>>
              /\ "datasourcesFilter" \in DOMAIN options
                    => options.datasourcesFilter = t_in.datasources
              /\ "facetFilters" \in DOMAIN options <=> t_in.facet_filters # <<>>
              /\ "facetFilters" \in DOMAIN options
                    => options.facetFilters = t_in.facet_filters
              /\ options.returnLlmContentOverSnippets = TRUE
              /\ sent.query = t_in.query
              /\ sent.pageSize = t_in.num_results

\* no datasources, one facet filter
C27_Witness ==
    /\ t_pc = "done"
    /\ t_in.token
    /\ t_in.datasources = <<>>
    /\ t_in.facet_filters = << type_filter("account") >>
    /\ t_in.query = <<"A", " ">>
    /\ DOMAIN t_out.requests[1].requestOptions =
          {"facetBucketSize", "returnLlmContentOverSnippets", "facetFilters"}

(***************************************************************************)
(* C28: on a successful search glean_search returns one record per result  *)
(* of the response, in the order of the response: record i is built from   *)
(* result i; nothing is re-sorted, filtered out or merged.                 *)
(***************************************************************************)
DocumentOf(result) == Get(result, "document", EmptyDict)

C28_ResultOrderKept ==
    (t_pc = "done" /\ t_in.token /\ t_in.outcome.kind = "ok") =>
        LET results == Get(t_in.outcome.data, "results", <<>>) IN
        /\ ~t_out.raised
        /\ Len(t_out.value) = Len(results)
        /\ \A i \in 1..Len(results) :
              /\ t_out.value[i].title = Get(DocumentOf(results[i]), "title", <<"Untitled">>)
              /\ t_out.value[i].url = Get(DocumentOf(results[i]), "url", <<>>)
              /\ t_out.value[i].datasource = Get(DocumentOf(results[i]), "datasource", <<>>)

\* three results, the last two alike, not in the order of titles
C28_Witness ==
    /\ t_pc = "done"
    /\ t_in.token
    /\ t_in.outcome = BackendOk(<<Doc1, Doc0, Doc0>>)
    /\ Len(t_out.value) = 3
    /\ t_out.value[1].title = <<"Zeta - QBR notes">>
    /\ t_out.value[2].title = <<"Acme - Renewal FY26">>
    /\ t_out.value[3] = t_out.value[2]

(***************************************************************************)
(* C29: whenever a reasoning-service call is about to be issued, in any    *)
(* turn of the session, also one that follows an aborted turn, every tool  *)
(* call id carried by an assistant message of the history has exactly one  *)
(* tool message with that id later in the history.                         *)
(***************************************************************************)
ResultsFor(msgs, i, id) ==
    { j \in (i + 1)..Len(msgs) : msgs[j].role = "tool" /\ msgs[j].tool_call_id = id }

C29_HistoryWellFormed ==
    pc = "reasoning" =>
        \A i \in 1..Len(messages) :
            messages[i].role = "assistant" =>
                \A k \in 1..Len(messages[i].tool_calls) :
                    Cardinality(ResultsFor(messages, i, messages[i].tool_calls[k].id)) = 1

(***************************************************************************)
(* C30: whenever chat returns a text to its caller, that text is the       *)
(* content of the last message of the history and that message is an       *)
(* assistant message, also when the iteration ceiling ends the turn.       *)
(***************************************************************************)
ChatReturns ==
    /\ variant = "cli"
    /\ pc \in {"reasoning", "tools"}
    /\ pc' = "awaiting"
    /\ shown'.kind = "response"

C30_ReturnStep ==
    ChatReturns =>
        /\ messages'[Len(messages')].role = "assistant"
        /\ messages'[Len(messages')].content = shown'.text

C30_ReturnIsLastAssistantMessage == [][C30_ReturnStep]_vars

====
